---- MODULE Spec2Model ----
(***************************************************************************)
(* A model of api-tester-routes: the dynamic content expander              *)
(* (APITester.process_dynamic_content), the generator registry             *)
(* (DynamicContentGenerator), the request executor (APITester.send_request)*)
(* the performance harness (APITester.run_performance_test) and the        *)
(* configuration driver (load_config_file, run_tests_from_config).          *)
(*                                                                         *)
(* Python strings are sequences of one-character strings, so that the      *)
(* marker parser's slicing, splitting and coercion are computed as the     *)
(* code computes them.  Python dicts live in a heap (they are mutated in   *)
(* place and shared by dict.copy()); lists are rebuilt by the expander and *)
(* are values.                                                             *)
(***************************************************************************)
EXTENDS Integers, Sequences, FiniteSets, TLC

(***************************************************************************)
(* String literals of the program                                          *)
(***************************************************************************)
\* $generate_
GenPrefix ==
    <<"$", "g", "e", "n", "e", "r", "a", "t", "e", "_">>
\* Error generating content: 
ErrPrefix ==
    <<"E", "r", "r", "o", "r", " ", "g", "e", "n", "e", "r", "a", "t", "i", "n", "g", " ", "c", "o", "n", "t", "e", "n", "t", ":", " ">>
\* Unknown generator: 
UnknownPrefix ==
    <<"U", "n", "k", "n", "o", "w", "n", " ", "g", "e", "n", "e", "r", "a", "t", "o", "r", ":", " ">>
\* generate_text
N_generate_text ==
    <<"g", "e", "n", "e", "r", "a", "t", "e", "_", "t", "e", "x", "t">>
\* generate_paragraph
N_generate_paragraph ==
    <<"g", "e", "n", "e", "r", "a", "t", "e", "_", "p", "a", "r", "a", "g", "r", "a", "p", "h">>
\* generate_uuid
N_generate_uuid ==
    <<"g", "e", "n", "e", "r", "a", "t", "e", "_", "u", "u", "i", "d">>
\* generate_email
N_generate_email ==
    <<"g", "e", "n", "e", "r", "a", "t", "e", "_", "e", "m", "a", "i", "l">>
\* generate_phone
N_generate_phone ==
    <<"g", "e", "n", "e", "r", "a", "t", "e", "_", "p", "h", "o", "n", "e">>
\* generate_date
N_generate_date ==
    <<"g", "e", "n", "e", "r", "a", "t", "e", "_", "d", "a", "t", "e">>
\* generate_number
N_generate_number ==
    <<"g", "e", "n", "e", "r", "a", "t", "e", "_", "n", "u", "m", "b", "e", "r">>
\* generate_boolean
N_generate_boolean ==
    <<"g", "e", "n", "e", "r", "a", "t", "e", "_", "b", "o", "o", "l", "e", "a", "n">>
\* generate_list
N_generate_list ==
    <<"g", "e", "n", "e", "r", "a", "t", "e", "_", "l", "i", "s", "t">>
\* min_words
K_min_words ==
    <<"m", "i", "n", "_", "w", "o", "r", "d", "s">>
\* max_words
K_max_words ==
    <<"m", "a", "x", "_", "w", "o", "r", "d", "s">>
\* min_sentences
K_min_sentences ==
    <<"m", "i", "n", "_", "s", "e", "n", "t", "e", "n", "c", "e", "s">>
\* max_sentences
K_max_sentences ==
    <<"m", "a", "x", "_", "s", "e", "n", "t", "e", "n", "c", "e", "s">>
\* start_date
K_start_date ==
    <<"s", "t", "a", "r", "t", "_", "d", "a", "t", "e">>
\* end_date
K_end_date ==
    <<"e", "n", "d", "_", "d", "a", "t", "e">>
\* min_val
K_min_val ==
    <<"m", "i", "n", "_", "v", "a", "l">>
\* max_val
K_max_val ==
    <<"m", "a", "x", "_", "v", "a", "l">>
\* generator_func
K_generator_func ==
    <<"g", "e", "n", "e", "r", "a", "t", "o", "r", "_", "f", "u", "n", "c">>
\* length
K_length ==
    <<"l", "e", "n", "g", "t", "h">>
\* options
K_options ==
    <<"o", "p", "t", "i", "o", "n", "s">>
\* true
L_true ==
    <<"t", "r", "u", "e">>
\* false
L_false ==
    <<"f", "a", "l", "s", "e">>
\* TypeError
E_TypeError ==
    <<"T", "y", "p", "e", "E", "r", "r", "o", "r">>
\* ValueError
E_ValueError ==
    <<"V", "a", "l", "u", "e", "E", "r", "r", "o", "r">>
\* IndexError
E_IndexError ==
    <<"I", "n", "d", "e", "x", "E", "r", "r", "o", "r">>
\* ABCDEFGHIJKLMNOPQRSTUVWXYZ
UpperAlpha ==
    <<"A", "B", "C", "D", "E", "F", "G", "H", "I", "J", "K", "L", "M", "N", "O", "P", "Q", "R", "S", "T", "U", "V", "W", "X", "Y", "Z">>
\* abcdefghijklmnopqrstuvwxyz
LowerAlpha ==
    <<"a", "b", "c", "d", "e", "f", "g", "h", "i", "j", "k", "l", "m", "n", "o", "p", "q", "r", "s", "t", "u", "v", "w", "x", "y", "z">>
\* 0123456789
Digits ==
    <<"0", "1", "2", "3", "4", "5", "6", "7", "8", "9">>
\* from_options
N_from_options ==
    <<"f", "r", "o", "m", "_", "o", "p", "t", "i", "o", "n", "s">>
\* AttributeError
E_AttributeError ==
    <<"A", "t", "t", "r", "i", "b", "u", "t", "e", "E", "r", "r", "o", "r">>

(***************************************************************************)
(* Strings that occur as values in route templates                         *)
(***************************************************************************)
\* hello
S_plain ==
    <<"h", "e", "l", "l", "o">>
\* $5.00 (approx)
S_price ==
    <<"$", "5", ".", "0", "0", " ", "(", "a", "p", "p", "r", "o", "x", ")">>
\* generate_uuid()
S_nodollar ==
    <<"g", "e", "n", "e", "r", "a", "t", "e", "_", "u", "u", "i", "d", "(", ")">>
\* $generate_uuid()
S_uuid ==
    <<"$", "g", "e", "n", "e", "r", "a", "t", "e", "_", "u", "u", "i", "d", "(", ")">>
\* $generate_uuid
S_uuid_bare ==
    <<"$", "g", "e", "n", "e", "r", "a", "t", "e", "_", "u", "u", "i", "d">>
\* $generate_uuid(x=1)
S_uuid_arg ==
    <<"$", "g", "e", "n", "e", "r", "a", "t", "e", "_", "u", "u", "i", "d", "(", "x", "=", "1", ")">>
\* $generate_text(min_words=1, max_words=2)
S_text ==
    <<"$", "g", "e", "n", "e", "r", "a", "t", "e", "_", "t", "e", "x", "t", "(", "m", "i", "n", "_", "w", "o", "r", "d", "s", "=", "1", ",", " ", "m", "a", "x", "_", "w", "o", "r", "d", "s", "=", "2", ")">>
\* $generate_text(min_words=)
S_text_bad ==
    <<"$", "g", "e", "n", "e", "r", "a", "t", "e", "_", "t", "e", "x", "t", "(", "m", "i", "n", "_", "w", "o", "r", "d", "s", "=", ")">>
\* $generate_text(min_words="2")
S_text_quoted ==
    <<"$", "g", "e", "n", "e", "r", "a", "t", "e", "_", "t", "e", "x", "t", "(", "m", "i", "n", "_", "w", "o", "r", "d", "s", "=", "\"", "2", "\"", ")">>
\* $generate_text(min_words=TRUE, max_words= 4 )
S_text_bool ==
    <<"$", "g", "e", "n", "e", "r", "a", "t", "e", "_", "t", "e", "x", "t", "(", "m", "i", "n", "_", "w", "o", "r", "d", "s", "=", "T", "R", "U", "E", ",", " ", "m", "a", "x", "_", "w", "o", "r", "d", "s", "=", " ", "4", " ", ")">>
\* $generate_foo()
S_foo ==
    <<"$", "g", "e", "n", "e", "r", "a", "t", "e", "_", "f", "o", "o", "(", ")">>
\* $generate_
S_prefix_only ==
    <<"$", "g", "e", "n", "e", "r", "a", "t", "e", "_">>
\* $from_options(["a","b"])
S_from_options ==
    <<"$", "f", "r", "o", "m", "_", "o", "p", "t", "i", "o", "n", "s", "(", "[", "\"", "a", "\"", ",", "\"", "b", "\"", "]", ")">>
\* $generate_number(min_val=5, max_val=5)
S_number ==
    <<"$", "g", "e", "n", "e", "r", "a", "t", "e", "_", "n", "u", "m", "b", "e", "r", "(", "m", "i", "n", "_", "v", "a", "l", "=", "5", ",", " ", "m", "a", "x", "_", "v", "a", "l", "=", "5", ")">>
\* $generate_number(min_val=7,max_val=2)
S_number_rev ==
    <<"$", "g", "e", "n", "e", "r", "a", "t", "e", "_", "n", "u", "m", "b", "e", "r", "(", "m", "i", "n", "_", "v", "a", "l", "=", "7", ",", "m", "a", "x", "_", "v", "a", "l", "=", "2", ")">>
\* $generate_number(max_val=[1,2])
S_number_list ==
    <<"$", "g", "e", "n", "e", "r", "a", "t", "e", "_", "n", "u", "m", "b", "e", "r", "(", "m", "a", "x", "_", "v", "a", "l", "=", "[", "1", ",", "2", "]", ")">>
\* $generate_number(max_val=[7])
S_number_brackets ==
    <<"$", "g", "e", "n", "e", "r", "a", "t", "e", "_", "n", "u", "m", "b", "e", "r", "(", "m", "a", "x", "_", "v", "a", "l", "=", "[", "7", "]", ")">>
\* $generate_boolean()
S_boolean ==
    <<"$", "g", "e", "n", "e", "r", "a", "t", "e", "_", "b", "o", "o", "l", "e", "a", "n", "(", ")">>
\* $generate_list(generator_func=x, length=0)
S_list ==
    <<"$", "g", "e", "n", "e", "r", "a", "t", "e", "_", "l", "i", "s", "t", "(", "g", "e", "n", "e", "r", "a", "t", "o", "r", "_", "f", "u", "n", "c", "=", "x", ",", " ", "l", "e", "n", "g", "t", "h", "=", "0", ")">>
\* $generate_date()
S_date ==
    <<"$", "g", "e", "n", "e", "r", "a", "t", "e", "_", "d", "a", "t", "e", "(", ")">>
\* $generate_paragraph()
S_paragraph ==
    <<"$", "g", "e", "n", "e", "r", "a", "t", "e", "_", "p", "a", "r", "a", "g", "r", "a", "p", "h", "(", ")">>

(***************************************************************************)
(* Python str operations used by the marker parser                         *)
(***************************************************************************)
\* the double-quote character
DQ == "\""

\* str.startswith(p)
StartsWith(s, p) == Len(s) >= Len(p) /\ SubSeq(s, 1, Len(p)) = p

\* str.endswith(p)
EndsWith(s, p) == Len(s) >= Len(p) /\ SubSeq(s, Len(s) - Len(p) + 1, Len(s)) = p

\* c in s, for a one-character c
Contains(s, c) == \E i \in 1..Len(s) : s[i] = c

\* 1-based index of the first c in s, 0 when there is none
FirstIndex(s, c) ==
    IF Contains(s, c)
    THEN CHOOSE i \in 1..Len(s) : s[i] = c /\ \A j \in 1..(i - 1) : s[j] # c
    ELSE 0

\* s.split(c)[0], and s.split(c, 1)[0]
SplitHead(s, c) == IF Contains(s, c) THEN SubSeq(s, 1, FirstIndex(s, c) - 1) ELSE s

\* s.split(c, 1)[1], for a s that contains c
SplitRest(s, c) == SubSeq(s, FirstIndex(s, c) + 1, Len(s))

\* s.split(c)
RECURSIVE Split(_, _)
Split(s, c) ==
    IF Contains(s, c)
    THEN <<SplitHead(s, c)>> \o Split(SplitRest(s, c), c)
    ELSE <<s>>

IsSpace(c) == c \in {" ", "\t", "\n", "\r"}

RECURSIVE LStrip(_)
LStrip(s) == IF s # <<>> /\ IsSpace(Head(s)) THEN LStrip(Tail(s)) ELSE s

RECURSIVE RStrip(_)
RStrip(s) ==
    IF s # <<>> /\ IsSpace(s[Len(s)]) THEN RStrip(SubSeq(s, 1, Len(s) - 1)) ELSE s

\* str.strip()
Strip(s) == RStrip(LStrip(s))

LowerChar(c) ==
    IF \E i \in 1..Len(UpperAlpha) : UpperAlpha[i] = c
    THEN LowerAlpha[CHOOSE i \in 1..Len(UpperAlpha) : UpperAlpha[i] = c]
    ELSE c

\* str.lower()
RECURSIVE Lower(_)
Lower(s) == IF s = <<>> THEN <<>> ELSE <<LowerChar(Head(s))>> \o Lower(Tail(s))

\* str.isdigit()
IsDigit(s) == s # <<>> /\ \A i \in 1..Len(s) : \E d \in 1..Len(Digits) : Digits[d] = s[i]

DigitVal(c) == (CHOOSE d \in 1..Len(Digits) : Digits[d] = c) - 1

\* int(s), for a s of digits
RECURSIVE ToInt(_)
ToInt(s) ==
    IF s = <<>> THEN 0
    ELSE 10 * ToInt(SubSeq(s, 1, Len(s) - 1)) + DigitVal(s[Len(s)])

(***************************************************************************)
(* Values: JSON values of the configuration and Python values passed to    *)
(* and returned by the generators.  Every value is a record of one shape:  *)
(*   k = "str"  : the string s                                            *)
(*   k = "int"  : the integer n                                           *)
(*   k = "bool" : n = 1 for True, 0 for False                             *)
(*   k = "none" : None / null                                             *)
(*   k = "list" : the list of values items                                *)
(*   k = "ref"  : the dict at heap address n                              *)
(*   k = "gen"  : the random string returned by invocation number n of    *)
(*                the generator named s (two invocations return distinct  *)
(*                strings)                                                 *)
(***************************************************************************)
MkStr(s) == [k |-> "str", s |-> s, n |-> 0, items |-> <<>>]
MkInt(n) == [k |-> "int", s |-> <<>>, n |-> n, items |-> <<>>]
MkBool(b) == [k |-> "bool", s |-> <<>>, n |-> IF b THEN 1 ELSE 0, items |-> <<>>]
MkList(items) == [k |-> "list", s |-> <<>>, n |-> 0, items |-> items]
MkRef(a) == [k |-> "ref", s |-> <<>>, n |-> a, items |-> <<>>]
MkGen(name, t) == [k |-> "gen", s |-> name, n |-> t, items |-> <<>>]
None == [k |-> "none", s |-> <<>>, n |-> 0, items |-> <<>>]

(***************************************************************************)
(* Marker argument parsing (the loop over param_pairs)                     *)
(***************************************************************************)
\* the conversion of one parameter value to bool, int or str
Coerce(v) ==
    IF Lower(v) = L_true THEN MkBool(TRUE)
    ELSE IF Lower(v) = L_false THEN MkBool(FALSE)
    ELSE IF IsDigit(v) THEN MkInt(ToInt(v))
    ELSE IF StartsWith(v, <<DQ>>) /\ EndsWith(v, <<DQ>>) THEN MkStr(SubSeq(v, 2, Len(v) - 1))
    ELSE MkStr(v)

\* params[k] = v on a dict kept as the sequence of its items in insertion order
DictSet(d, key, val) ==
    IF \E i \in 1..Len(d) : d[i].key = key
    THEN [i \in 1..Len(d) |-> IF d[i].key = key THEN [key |-> key, val |-> val] ELSE d[i]]
    ELSE Append(d, [key |-> key, val |-> val])

DictHas(d, key) == \E i \in 1..Len(d) : d[i].key = key

DictGet(d, key, default) ==
    IF DictHas(d, key) THEN d[CHOOSE i \in 1..Len(d) : d[i].key = key].val ELSE default

DictKeys(d) == {d[i].key : i \in 1..Len(d)}

\* for pair in param_pairs: if "=" in pair: k, v = pair.split("=", 1); ...
RECURSIVE ParsePairs(_, _)
ParsePairs(pairs, params) ==
    IF pairs = <<>> THEN params
    ELSE LET pair == Head(pairs)
         IN IF Contains(pair, "=")
            THEN ParsePairs(Tail(pairs),
                            DictSet(params, Strip(SplitHead(pair, "=")),
                                    Coerce(Strip(SplitRest(pair, "=")))))
            ELSE ParsePairs(Tail(pairs), params)

\* params of the call written in func_str, whose function name is func_name
ParseParams(func_str, func_name) ==
    LET params_str == SubSeq(func_str, Len(func_name) + 2, Len(func_str) - 1)
    IN IF params_str # <<>> THEN ParsePairs(Split(params_str, ","), <<>>) ELSE <<>>

(***************************************************************************)
(* The generator registry (DynamicContentGenerator).  A call returns       *)
(* [exc, val]: exc is "" and val the value returned, or exc names the      *)
(* exception raised.  t is the number of the invocation and e the entropy  *)
(* it draws from the process-wide random source.                           *)
(***************************************************************************)
DefaultMinWords == 3
DefaultMaxWords == 10
DefaultMinVal == 0
DefaultMaxVal == 100
DefaultLength == 3

Ok(v) == [exc |-> "", val |-> v]
Raise(e) == [exc |-> e, val |-> None]

IsIntLike(v) == v.k \in {"int", "bool"}

\* Python truthiness of an argument value
Truthy(v) ==
    CASE v.k = "none" -> FALSE
      [] v.k \in {"int", "bool"} -> v.n # 0
      [] v.k = "str" -> v.s # <<>>
      [] v.k = "list" -> v.items # <<>>
      [] OTHER -> TRUE

\* the call's keyword arguments do not bind to the signature: TypeError
BindFails(params, allowed, required) ==
    \/ ~(DictKeys(params) \subseteq allowed)
    \/ ~(required \subseteq DictKeys(params))

\* random.randint(a, b)
RandInt(a, b, e) ==
    IF ~(IsIntLike(a) /\ IsIntLike(b)) THEN Raise("TypeError")
    ELSE IF a.n > b.n THEN Raise("ValueError")
    ELSE Ok(MkInt(a.n + (e % (b.n - a.n + 1))))

generate_text(params, t, e) ==
    IF BindFails(params, {K_min_words, K_max_words}, {}) THEN Raise("TypeError")
    ELSE LET word_count == RandInt(DictGet(params, K_min_words, MkInt(DefaultMinWords)),
                                   DictGet(params, K_max_words, MkInt(DefaultMaxWords)), e)
         IN IF word_count.exc # "" THEN word_count
            ELSE IF word_count.val.n = 0 THEN Ok(MkStr(<<>>))
            ELSE Ok(MkGen(N_generate_text, t))

generate_paragraph(params, t, e) ==
    IF BindFails(params, {K_min_sentences, K_max_sentences}, {}) THEN Raise("TypeError")
    ELSE Ok(MkGen(N_generate_paragraph, t))

generate_uuid(params, t, e) ==
    IF BindFails(params, {}, {}) THEN Raise("TypeError")
    ELSE Ok(MkGen(N_generate_uuid, t))

generate_email(params, t, e) ==
    IF BindFails(params, {}, {}) THEN Raise("TypeError")
    ELSE Ok(MkGen(N_generate_email, t))

generate_phone(params, t, e) ==
    IF BindFails(params, {}, {}) THEN Raise("TypeError")
    ELSE Ok(MkGen(N_generate_phone, t))

\* A date argument that is a non-empty string is parsed and compared with the
\* other bound (by default the clock): the call returns a date or raises
\* ValueError (unparsable, or an empty range), which the entropy decides here.
generate_date(params, t, e) ==
    IF BindFails(params, {K_start_date, K_end_date}, {}) THEN Raise("TypeError")
    ELSE LET start_date == DictGet(params, K_start_date, None)
             end_date == DictGet(params, K_end_date, None)
             given == {d \in {start_date, end_date} : Truthy(d)}
         IN IF \E d \in given : d.k = "str"
            THEN IF e % 2 = 1 THEN Raise("ValueError")
                 ELSE IF \E d \in given : d.k # "str" THEN Raise("TypeError")
                 ELSE Ok(MkGen(N_generate_date, t))
            ELSE IF given # {} THEN
                 (IF Truthy(start_date) /\ Truthy(end_date) THEN Raise("AttributeError")
                  ELSE Raise("TypeError"))
            ELSE Ok(MkGen(N_generate_date, t))

generate_number(params, t, e) ==
    IF BindFails(params, {K_min_val, K_max_val}, {}) THEN Raise("TypeError")
    ELSE RandInt(DictGet(params, K_min_val, MkInt(DefaultMinVal)),
                 DictGet(params, K_max_val, MkInt(DefaultMaxVal)), e)

generate_boolean(params, t, e) ==
    IF BindFails(params, {}, {}) THEN Raise("TypeError")
    ELSE Ok(MkBool(e % 2 = 1))

\* generator_func arrives as a str, int or bool, none of which is callable:
\* the call succeeds only when range(length) is empty
generate_list(params, t, e) ==
    IF BindFails(params, DictKeys(params), {K_generator_func}) THEN Raise("TypeError")
    ELSE LET length == DictGet(params, K_length, MkInt(DefaultLength))
         IN IF ~IsIntLike(length) THEN Raise("TypeError")
            ELSE IF length.n = 0 THEN Ok(MkList(<<>>))
            ELSE Raise("TypeError")

\* random.choice(options)
from_options(params, t, e) ==
    IF BindFails(params, {K_options}, {K_options}) THEN Raise("TypeError")
    ELSE LET options == DictGet(params, K_options, None)
         IN CASE options.k = "str" ->
                   IF options.s = <<>> THEN Raise("IndexError")
                   ELSE Ok(MkStr(<<options.s[1 + (e % Len(options.s))]>>))
              [] options.k = "list" ->
                   IF options.items = <<>> THEN Raise("IndexError")
                   ELSE Ok(options.items[1 + (e % Len(options.items))])
              [] OTHER -> Raise("TypeError")

\* the names getattr(self.content_generator, func_name, None) finds callable
GeneratorNames ==
    {N_generate_text, N_generate_paragraph, N_generate_uuid, N_generate_email,
     N_generate_phone, N_generate_date, N_generate_number, N_generate_boolean,
     N_generate_list, N_from_options}

\* generator_method(**params)
Invoke(func_name, params, t, e) ==
    CASE func_name = N_generate_text -> generate_text(params, t, e)
      [] func_name = N_generate_paragraph -> generate_paragraph(params, t, e)
      [] func_name = N_generate_uuid -> generate_uuid(params, t, e)
      [] func_name = N_generate_email -> generate_email(params, t, e)
      [] func_name = N_generate_phone -> generate_phone(params, t, e)
      [] func_name = N_generate_date -> generate_date(params, t, e)
      [] func_name = N_generate_number -> generate_number(params, t, e)
      [] func_name = N_generate_boolean -> generate_boolean(params, t, e)
      [] func_name = N_generate_list -> generate_list(params, t, e)
      [] func_name = N_from_options -> from_options(params, t, e)

\* str(e) of an exception, abstracted to the name of its class
ExcText(exc) ==
    CASE exc = "TypeError" -> E_TypeError
      [] exc = "ValueError" -> E_ValueError
      [] exc = "IndexError" -> E_IndexError
      [] exc = "AttributeError" -> E_AttributeError

(***************************************************************************)
(* APITester.process_dynamic_content.  The walk threads a state            *)
(*   st = [heap, calls, exc]                                               *)
(* heap: the dicts, each the sequence of its [key, val] items;             *)
(* calls: the generator invocations made so far, in order;                 *)
(* exc: "" or the exception propagating out of the walk.                   *)
(***************************************************************************)
\* a handler that is "except ValueError" instead
CatchesValueErrorOnly(exc) == exc = "ValueError"

\* "except Exception as e" handles the exception exc
Catches(exc) == TRUE

\* the branch taken for a str that starts with "$generate_"
ProcessMarker(data, st, rnd) ==
    LET func_str == Tail(data)
        func_name == SplitHead(func_str, "(")
        params == ParseParams(func_str, func_name)
        t == Len(st.calls) + 1
    IN IF func_name \in GeneratorNames
       THEN LET r == Invoke(func_name, params, t, rnd + t)
                st1 == [st EXCEPT !.calls = Append(@, [name |-> func_name, params |-> params])]
            IN IF r.exc = "" THEN [val |-> r.val, st |-> st1]
               ELSE IF Catches(r.exc)
               THEN [val |-> MkStr(ErrPrefix \o ExcText(r.exc)), st |-> st1]
               ELSE [val |-> None, st |-> [st1 EXCEPT !.exc = r.exc]]
       ELSE [val |-> MkStr(UnknownPrefix \o func_name), st |-> st]

\* a test that takes every string that starts with "$" for dynamic
IsDynamicAnyDollar(data) == data.k = "str" /\ StartsWith(data.s, <<"$">>)

\* isinstance(data, str) and data.startswith("$generate_")
IsDynamic(data) == data.k = "str" /\ StartsWith(data.s, GenPrefix)

RECURSIVE process_dynamic_content(_, _, _)
RECURSIVE ProcessItems(_, _, _, _, _)
RECURSIVE ProcessList(_, _, _)

\* for key, value in list(data.items()): data[key] = process_dynamic_content(value)
\* items is the snapshot list(data.items()), i the next item of it
ProcessItems(addr, items, i, st, rnd) ==
    IF i > Len(items) \/ st.exc # "" THEN st
    ELSE LET r == process_dynamic_content(items[i].val, st, rnd)
             h == r.st.heap
             st1 == IF r.st.exc # "" THEN r.st
                    ELSE [r.st EXCEPT !.heap =
                            [h EXCEPT ![addr] = DictSet(h[addr], items[i].key, r.val)]]
         IN ProcessItems(addr, items, i + 1, st1, rnd)

\* [process_dynamic_content(item) for item in data]
ProcessList(items, st, rnd) ==
    IF items = <<>> \/ st.exc # "" THEN [val |-> <<>>, st |-> st]
    ELSE LET r == process_dynamic_content(Head(items), st, rnd)
             rest == ProcessList(Tail(items), r.st, rnd)
         IN [val |-> <<r.val>> \o rest.val, st |-> rest.st]

process_dynamic_content(data, st, rnd) ==
    IF data.k = "ref"
    THEN [val |-> data, st |-> ProcessItems(data.n, st.heap[data.n], 1, st, rnd)]
    ELSE IF data.k = "list"
    THEN LET r == ProcessList(data.items, st, rnd)
         IN [val |-> MkList(r.val), st |-> r.st]
    ELSE IF IsDynamic(data)
    THEN ProcessMarker(data.s, st, rnd)
    ELSE [val |-> data, st |-> st]

(***************************************************************************)
(* The heap of dicts.  self.headers, self.body and self.params of the      *)
(* tester that run_performance_test is called on live at SelfAddr; dicts   *)
(* nested in them at NestedAddrs; the dicts of the tester built for one    *)
(* iteration at CopyAddr (the previous iteration's tester is garbage by    *)
(* then).                                                                  *)
(***************************************************************************)
SelfAddr == [headers |-> 1, body |-> 2, params |-> 3]
NestedAddrs == {4, 5}
CopyAddr == [headers |-> 6, body |-> 7, params |-> 8]
HeapAddrs == 1..8

Entry(key, val) == [key |-> key, val |-> val]
EmptyHeap == [a \in HeapAddrs |-> <<>>]

\* The JSON value at v with every dict reference resolved: a dict becomes
\* k = "dict" with one k = "entry" per item (s = <<key>>, items = <<value>>).
RECURSIVE Deep(_, _)
Deep(v, h) ==
    IF v.k = "ref"
    THEN [k |-> "dict", s |-> <<>>, n |-> 0,
          items |-> [j \in 1..Len(h[v.n]) |->
                       [k |-> "entry", s |-> <<h[v.n][j].key>>, n |-> 0,
                        items |-> <<Deep(h[v.n][j].val, h)>>]]]
    ELSE IF v.k = "list"
    THEN [v EXCEPT !.items = [j \in 1..Len(v.items) |-> Deep(v.items[j], h)]]
    ELSE v

\* the invocation numbers of the generated values in a resolved value
RECURSIVE GenTickets(_)
GenTickets(d) ==
    IF d.k = "gen" THEN {d.n}
    ELSE UNION {GenTickets(d.items[j]) : j \in 1..Len(d.items)}

\* sum(s)
RECURSIVE SumSeq(_)
SumSeq(s) == IF s = <<>> THEN 0 ELSE Head(s) + SumSeq(Tail(s))

(***************************************************************************)
(* Bounds of the model                                                     *)
(***************************************************************************)
\* the largest num_requests
MaxCount == 3
\* the seeds of the random source
MaxRnd == 1
\* the largest measured duration, in clock ticks
MaxDur == 2
\* the largest number of routes of a configuration
MaxRoutes == 2
\* the largest args.requests of a run over a configuration
MaxConfigCount == 1

\* the pool cap of ThreadPoolExecutor(max_workers=min(num_requests, 10))
PoolCap == 10

\* the status codes the transport answers with
StatusCodes == {200, 404}
\* the methods whose body is sent as JSON
BodyMethods == {"POST", "PUT", "PATCH"}

VARIABLES
    heap,           \* the dicts
    calls,          \* the generator invocations made, in order
    heap0,          \* the heap when the tester under test was constructed
    pc,             \* the position of the program
    exc,            \* the exception that ended the program, "" when none
    data,           \* the argument of a direct process_dynamic_content call
    ret,            \* its return value
    method,         \* self.method
    num_requests,   \* the num_requests argument (args.requests)
    concurrent,     \* the concurrent argument (args.concurrent)
    detail,         \* args.detail
    iter,           \* the iterations of the loop started so far
    tester,         \* the tester of the current iteration
    future,         \* the future of the submitted send_request
    response,       \* what send_request returned
    durations,      \* the list durations
    status_codes,   \* the list status_codes
    result,         \* what run_performance_test returned
    outcomes,       \* the transport calls made, in order
    config,         \* the content of the configuration file
    routes,         \* the routes of the loaded configuration
    route_filter,   \* args.route
    route_idx,      \* the index of the route being tested
    results         \* the list results of run_tests_from_config

vars ==
    <<heap, calls, heap0, pc, exc, data, ret, method, num_requests, concurrent,
      detail, iter, tester, future, response, durations, status_codes, result,
      outcomes, config, routes, route_filter, route_idx, results>>

\* the variables of the expander
expandVars == <<heap, calls>>
\* the variables of a direct call of the expander
directVars == <<data, ret>>
\* the variables of one tester's run
runVars ==
    <<method, num_requests, concurrent, detail, iter, tester, future, response,
      durations, status_codes, result, outcomes>>
\* the variables of the configuration driver
configVars == <<config, routes, route_filter, route_idx, results>>

(***************************************************************************)
(* Results of run_performance_test                                         *)
(***************************************************************************)
Ratio(num, den) == [num |-> num, den |-> den]

NoResult ==
    [kind |-> "none", keys |-> {}, error |-> "", name |-> "", requests_sent |-> 0,
     successful_requests |-> 0, min_time |-> 0, max_time |-> 0,
     avg_time |-> Ratio(0, 1), median_time |-> Ratio(0, 1),
     status_codes |-> [c \in {} |-> 0]]

\* {"error": "All requests failed"}
ErrorResult ==
    [NoResult EXCEPT !.kind = "error", !.keys = {"error"},
                     !.error = "All requests failed"]

StatsKeys ==
    {"url", "method", "requests_sent", "successful_requests", "min_time",
     "max_time", "avg_time", "median_time", "status_codes"}

SeqMin(s) == CHOOSE x \in {s[j] : j \in 1..Len(s)} : \A j \in 1..Len(s) : x <= s[j]
SeqMax(s) == CHOOSE x \in {s[j] : j \in 1..Len(s)} : \A j \in 1..Len(s) : x >= s[j]

RECURSIVE InsertSorted(_, _)
InsertSorted(x, s) ==
    IF s = <<>> THEN <<x>>
    ELSE IF x <= Head(s) THEN <<x>> \o s
    ELSE <<Head(s)>> \o InsertSorted(x, Tail(s))

RECURSIVE Sorted(_)
Sorted(s) == IF s = <<>> THEN <<>> ELSE InsertSorted(Head(s), Sorted(Tail(s)))

\* statistics.mean
Mean(s) == Ratio(SumSeq(s), Len(s))

\* statistics.median
Median(s) ==
    LET d == Sorted(s)
        n == Len(s)
    IN IF n % 2 = 1 THEN Ratio(d[(n + 1) \div 2], 1)
       ELSE Ratio(d[n \div 2] + d[n \div 2 + 1], 2)

\* status_codes.count(code)
CountOf(s, code) == Cardinality({j \in 1..Len(s) : s[j] = code})

\* a histogram that counts each code once
HistogramOfOnes(s) == [code \in {s[j] : j \in 1..Len(s)} |-> 1]

\* dict((code, status_codes.count(code)) for code in set(status_codes))
Histogram(s) == [code \in {s[j] : j \in 1..Len(s)} |-> CountOf(s, code)]

\* the value run_performance_test returns for the collected lists
Aggregated(n, durs, codes) ==
    IF durs = <<>> THEN ErrorResult
    ELSE [kind |-> "stats", keys |-> StatsKeys, error |-> "", name |-> "",
          requests_sent |-> n, successful_requests |-> Len(durs),
          min_time |-> SeqMin(durs), max_time |-> SeqMax(durs),
          avg_time |-> Mean(durs), median_time |-> Median(durs),
          status_codes |-> Histogram(codes)]

(***************************************************************************)
(* Responses                                                               *)
(***************************************************************************)
NoResponse == [present |-> FALSE, status_code |-> 0]
Response(code) == [present |-> TRUE, status_code |-> code]

\* "if response:" -- None is false, and a requests.Response is true exactly
\* when it is ok, that is when its status is no 4xx or 5xx
ResponseTruthy(r) == r.present /\ ~(r.status_code >= 400 /\ r.status_code < 600)

\* a send_request without its try/except
SendCatchesNothing == FALSE

\* "except Exception as e" of send_request handles a transport error
SendCatches == TRUE

NoTester == [headers |-> 0, body |-> 0, params |-> 0, duration |-> 0]

(***************************************************************************)
(* The route templates a tester is constructed from                        *)
(***************************************************************************)
TemplateNames == {"flat", "nested", "array", "deep", "plain"}

TemplateHeap(t) ==
    CASE t = "flat" ->
           [EmptyHeap EXCEPT
              ![SelfAddr.headers] = <<Entry("X-Request-ID", MkStr(S_uuid))>>,
              ![SelfAddr.body] = <<Entry("name", MkStr(S_plain))>>]
      [] t = "nested" ->
           [EmptyHeap EXCEPT
              ![SelfAddr.body] = <<Entry("email", MkStr(S_uuid)),
                                   Entry("profile", MkRef(4))>>,
              ![4] = <<Entry("bio", MkStr(S_paragraph))>>]
      [] t = "array" ->
           [EmptyHeap EXCEPT
              ![SelfAddr.body] = <<Entry("items", MkList(<<MkRef(4), MkStr(S_uuid)>>))>>,
              ![4] = <<Entry("id", MkStr(S_uuid))>>]
      [] t = "deep" ->
           [EmptyHeap EXCEPT
              ![SelfAddr.body] = <<Entry("a", MkRef(4))>>,
              ![4] = <<Entry("b", MkRef(5))>>,
              ![5] = <<Entry("c", MkStr(S_number))>>,
              ![SelfAddr.params] = <<Entry("q", MkStr(S_boolean))>>]
      [] t = "plain" ->
           [EmptyHeap EXCEPT
              ![SelfAddr.headers] = <<Entry("Accept", MkStr(S_plain))>>,
              ![SelfAddr.body] = <<Entry("n", MkInt(7))>>,
              ![SelfAddr.params] = <<Entry("include", MkStr(S_nodollar))>>]

\* headers, body and params of a tester, resolved
TesterData(t, h) ==
    [headers |-> Deep(MkRef(t.headers), h),
     body |-> Deep(MkRef(t.body), h),
     params |-> Deep(MkRef(t.params), h)]

(***************************************************************************)
(* APITester.send_request and APITester.run_performance_test               *)
(***************************************************************************)
Min(a, b) == IF a <= b THEN a ELSE b

\* the state of one run before it starts
RunInit ==
    /\ iter = 0
    /\ tester = NoTester
    /\ future = "none"
    /\ response = NoResponse
    /\ durations = <<>>
    /\ status_codes = <<>>
    /\ result = NoResult
    /\ outcomes = <<>>

\* tester.send_request() on the tester itself, when args.detail is set
DetailRequest ==
    /\ pc = "start"
    /\ detail
    /\ tester' = [headers |-> SelfAddr.headers, body |-> SelfAddr.body,
                  params |-> SelfAddr.params, duration |-> 0]
    /\ pc' = "created"
    /\ UNCHANGED <<heap, calls, heap0, exc, data, ret, method, num_requests,
                   concurrent, detail, iter, future, response, durations,
                   status_codes, result, outcomes, configVars>>

\* run_performance_test up to its loop: the two lists, and in concurrent mode
\* the executor, whose constructor raises ValueError unless max_workers > 0
Enter ==
    /\ pc = "start"
    /\ ~detail
    /\ durations' = <<>>
    /\ status_codes' = <<>>
    /\ IF concurrent /\ Min(num_requests, PoolCap) <= 0
       THEN pc' = "raised" /\ exc' = "ValueError"
       ELSE pc' = "loop" /\ exc' = exc
    /\ UNCHANGED <<heap, calls, heap0, data, ret, method, num_requests,
                   concurrent, detail, iter, tester, future, response, result,
                   outcomes, configVars>>

\* APITester(self.url, self.method, self.headers.copy(), self.body.copy(),
\*           self.params.copy())
NewTester ==
    /\ pc = "loop"
    /\ iter < num_requests
    /\ iter' = iter + 1
    /\ heap' = [heap EXCEPT ![CopyAddr.headers] = heap[SelfAddr.headers],
                            ![CopyAddr.body] = heap[SelfAddr.body],
                            ![CopyAddr.params] = heap[SelfAddr.params]]
    /\ tester' = [headers |-> CopyAddr.headers, body |-> CopyAddr.body,
                  params |-> CopyAddr.params, duration |-> 0]
    /\ pc' = "created"
    /\ UNCHANGED <<calls, heap0, exc, data, ret, method, num_requests,
                   concurrent, detail, future, response, durations,
                   status_codes, result, outcomes, configVars>>

\* future = executor.submit(tester.send_request)
Submit ==
    /\ pc = "created"
    /\ concurrent
    /\ ~detail
    /\ future' = "pending"
    /\ pc' = "waiting"
    /\ UNCHANGED <<heap, calls, heap0, exc, data, ret, method, num_requests,
                   concurrent, detail, iter, tester, response, durations,
                   status_codes, result, outcomes, configVars>>

\* prepare_request_data: headers, then body, then params
PrepareRequestData(t, st, rnd) ==
    LET h == process_dynamic_content(MkRef(t.headers), st, rnd)
        b == process_dynamic_content(MkRef(t.body), h.st, rnd)
        p == process_dynamic_content(MkRef(t.params), b.st, rnd)
    IN p.st

\* what requests.request is given: headers, params, and the body as json for
\* the methods that carry one
RequestSent(t, h) ==
    LET d == TesterData(t, h)
    IN [headers |-> d.headers, params |-> d.params,
        json |-> IF method \in BodyMethods THEN d.body ELSE None]

\* tester.send_request(), on the calling thread or on a worker of the pool.
\* The transport raises (raised) or answers with the status code.
SendRequest(rnd, raised, code, dur) ==
    /\ \/ pc = "created" /\ (detail \/ ~concurrent)
       \/ pc = "waiting" /\ future = "pending"
    /\ LET st == PrepareRequestData(tester, [heap |-> heap, calls |-> calls, exc |-> ""], rnd)
           sent == RequestSent(tester, st.heap)
       IN /\ heap' = st.heap
          /\ calls' = st.calls
          /\ IF st.exc # ""
             THEN /\ exc' = st.exc
                  /\ pc' = "raised"
                  /\ UNCHANGED <<tester, response, outcomes, future>>
             ELSE /\ outcomes' = Append(outcomes,
                        [raised |-> raised, status_code |-> IF raised THEN 0 ELSE code,
                         start |-> Len(calls),
                         sent |-> GenTickets(sent.headers) \cup GenTickets(sent.params)
                                    \cup GenTickets(sent.json)])
                  /\ tester' = [tester EXCEPT !.duration = dur]
                  /\ IF raised /\ ~SendCatches
                     THEN /\ exc' = "ConnectionError"
                          /\ pc' = "raised"
                          /\ UNCHANGED <<response, future>>
                     ELSE /\ response' = IF raised THEN NoResponse ELSE Response(code)
                          /\ exc' = exc
                          /\ pc' = IF pc = "waiting" THEN "waiting" ELSE "returned"
                          /\ future' = IF pc = "waiting" THEN "done" ELSE future
    /\ UNCHANGED <<heap0, data, ret, method, num_requests, concurrent, detail,
                   iter, durations, status_codes, result, configVars>>

\* a future.result() that returns without waiting for the worker
FutureResultNoWait ==
    /\ pc = "waiting"
    /\ pc' = "returned"
    /\ UNCHANGED <<heap, calls, heap0, exc, data, ret, method, num_requests,
                   concurrent, detail, iter, tester, future, response,
                   durations, status_codes, result, outcomes, configVars>>

\* response = future.result()
FutureResult ==
    /\ pc = "waiting"
    /\ future = "done"
    /\ future' = "none"
    /\ pc' = "returned"
    /\ UNCHANGED <<heap, calls, heap0, exc, data, ret, method, num_requests,
                   concurrent, detail, iter, tester, response, durations,
                   status_codes, result, outcomes, configVars>>

\* if response: durations.append(tester.duration)
\*              status_codes.append(response.status_code)
Collect ==
    /\ pc = "returned"
    /\ ~detail
    /\ IF ResponseTruthy(response)
       THEN /\ durations' = Append(durations, tester.duration)
            /\ status_codes' = Append(status_codes, response.status_code)
       ELSE UNCHANGED <<durations, status_codes>>
    /\ pc' = "loop"
    /\ UNCHANGED <<heap, calls, heap0, exc, data, ret, method, num_requests,
                   concurrent, detail, iter, tester, future, response, result,
                   outcomes, configVars>>

\* the end of the loop (and of the executor's with block) and the return
Aggregate ==
    /\ pc = "loop"
    /\ iter = num_requests
    /\ result' = Aggregated(num_requests, durations, status_codes)
    /\ pc' = "done"
    /\ UNCHANGED <<heap, calls, heap0, exc, data, ret, method, num_requests,
                   concurrent, detail, iter, tester, future, response,
                   durations, status_codes, outcomes, configVars>>

\* tester.print_response_details()
PrintResponseDetails ==
    /\ pc = "returned"
    /\ detail
    /\ pc' = "done"
    /\ UNCHANGED <<heap, calls, heap0, exc, data, ret, method, num_requests,
                   concurrent, detail, iter, tester, future, response,
                   durations, status_codes, result, outcomes, configVars>>

\* one step of a tester's run
RunStep ==
    \/ DetailRequest
    \/ Enter
    \/ NewTester
    \/ Submit
    \/ \E rnd \in 0..MaxRnd, raised \in BOOLEAN, code \in StatusCodes, dur \in 1..MaxDur :
          SendRequest(rnd, raised, code, dur)
    \/ FutureResult
    \/ Collect
    \/ Aggregate
    \/ PrintResponseDetails

(***************************************************************************)
(* Spec: main() with --url: one tester, built from a route template, and   *)
(* either one detailed request or a performance test                       *)
(***************************************************************************)
ConfigIdle ==
    /\ config = [valid |-> TRUE, multi |-> FALSE, routes |-> <<>>]
    /\ routes = <<>>
    /\ route_filter = {}
    /\ route_idx = 0
    /\ results = <<>>

Init ==
    /\ \E t \in TemplateNames : heap = TemplateHeap(t)
    /\ heap0 = heap
    /\ calls = <<>>
    /\ pc = "start"
    /\ exc = ""
    /\ data = None
    /\ ret = None
    /\ method \in {"GET", "POST"}
    /\ num_requests \in 0..MaxCount
    /\ concurrent \in BOOLEAN
    /\ detail \in BOOLEAN
    /\ RunInit
    /\ ConfigIdle

Next == RunStep

Spec == Init /\ [][Next]_vars

(***************************************************************************)
(* SpecExpand: process_dynamic_content called once on a JSON value that    *)
(* holds one of the sample strings, bare or inside dicts and lists         *)
(***************************************************************************)
Samples ==
    {S_plain, S_price, S_nodollar, S_uuid, S_uuid_bare, S_uuid_arg, S_text,
     S_text_bad, S_text_quoted, S_text_bool, S_foo, S_prefix_only,
     S_from_options, S_number, S_number_rev, S_number_list, S_number_brackets,
     S_boolean, S_list, S_date, S_paragraph}

Shapes == {"bare", "top", "nested", "list", "listdict"}

\* the argument of the call, for a sample string s
InputData(shape, s) ==
    CASE shape = "bare" -> MkStr(s)
      [] shape = "list" -> MkList(<<MkStr(S_plain), MkStr(s), None>>)
      [] OTHER -> MkRef(1)

\* the dicts the argument refers to
InputHeap(shape, s) ==
    CASE shape = "top" ->
           [EmptyHeap EXCEPT
              ![1] = <<Entry("a", MkStr(S_plain)), Entry("m", MkStr(s)),
                       Entry("z", MkInt(7))>>]
      [] shape = "nested" ->
           [EmptyHeap EXCEPT
              ![1] = <<Entry("a", MkStr(S_plain)), Entry("inner", MkRef(2))>>,
              ![2] = <<Entry("m", MkStr(s)), Entry("b", MkBool(TRUE))>>]
      [] shape = "listdict" ->
           [EmptyHeap EXCEPT
              ![1] = <<Entry("xs", MkList(<<MkRef(2), MkStr(S_price)>>))>>,
              ![2] = <<Entry("m", MkStr(s))>>]
      [] OTHER -> EmptyHeap

InitExpand ==
    /\ \E shape \in Shapes, s \in Samples :
          /\ data = InputData(shape, s)
          /\ heap = InputHeap(shape, s)
    /\ heap0 = heap
    /\ calls = <<>>
    /\ pc = "expand"
    /\ exc = ""
    /\ ret = None
    /\ method = "GET"
    /\ num_requests = 0
    /\ concurrent = FALSE
    /\ detail = FALSE
    /\ RunInit
    /\ ConfigIdle

\* ret = tester.process_dynamic_content(data)
ExpandCall(rnd) ==
    /\ pc = "expand"
    /\ LET r == process_dynamic_content(data, [heap |-> heap, calls |-> calls, exc |-> ""], rnd)
       IN /\ heap' = r.st.heap
          /\ calls' = r.st.calls
          /\ exc' = r.st.exc
          /\ ret' = r.val
          /\ pc' = IF r.st.exc = "" THEN "expanded" ELSE "raised"
    /\ UNCHANGED <<heap0, data, runVars, configVars>>

NextExpand == \E rnd \in 0..MaxRnd : ExpandCall(rnd)

SpecExpand == InitExpand /\ [][NextExpand]_vars

(***************************************************************************)
(* SpecConfig: main() with --config: load_config_file, then                *)
(* run_tests_from_config over the routes.  A route is [name, has_url,      *)
(* tpl]: its name, whether it has a "url" key, and the template of its     *)
(* headers, body and params.  A single-route file is the one route that    *)
(* the file's object is.  (template.py names APITester without importing   *)
(* it; the model binds the name to api_tester.APITester, as main.py does.) *)
(***************************************************************************)
RouteOf(name, has_url) ==
    [name |-> name, has_url |-> has_url,
     tpl |-> IF name = "A" THEN "flat" ELSE "nested"]

RouteSet == {RouteOf(name, has_url) : name \in {"A", "B"}, has_url \in BOOLEAN}

RouteLists == UNION {[1..n -> RouteSet] : n \in 0..MaxRoutes}

Configs ==
    {[valid |-> FALSE, multi |-> FALSE, routes |-> <<>>]}
      \cup {[valid |-> TRUE, multi |-> FALSE, routes |-> <<r>>] : r \in RouteSet}
      \cup {[valid |-> TRUE, multi |-> TRUE, routes |-> rs] : rs \in RouteLists}

InitConfig ==
    /\ config \in Configs
    /\ routes = <<>>
    /\ route_filter \in {{}, {"A"}}
    /\ route_idx = 0
    /\ results = <<>>
    /\ heap = EmptyHeap
    /\ heap0 = heap
    /\ calls = <<>>
    /\ pc = "load"
    /\ exc = ""
    /\ data = None
    /\ ret = None
    /\ method = "POST"
    /\ num_requests \in 0..MaxConfigCount
    /\ concurrent \in BOOLEAN
    /\ detail \in BOOLEAN
    /\ RunInit

\* config = template.load_config_file(args.config)
LoadConfigFile ==
    /\ pc = "load"
    /\ IF ~config.valid
       THEN pc' = "raised" /\ exc' = "ValueError" /\ routes' = routes
       ELSE IF config.multi
       THEN pc' = "routes" /\ exc' = exc /\ routes' = config.routes
       ELSE IF ~config.routes[1].has_url
       THEN pc' = "raised" /\ exc' = "ValueError" /\ routes' = routes
       ELSE pc' = "routes" /\ exc' = exc /\ routes' = config.routes
    /\ UNCHANGED <<heap, calls, heap0, data, ret, runVars, config,
                   route_filter, route_idx, results>>

\* one pass of "for i, route in enumerate(routes)" up to the tester's use:
\* the route filter, url = route["url"], and the tester's construction
NextRoute ==
    /\ pc = "routes"
    /\ route_idx < Len(routes)
    /\ route_idx' = route_idx + 1
    /\ LET route == routes[route_idx + 1]
       IN IF route_filter # {} /\ route.name \notin route_filter
          THEN /\ pc' = "routes"
               /\ UNCHANGED <<heap, heap0, exc, iter, tester, future, response,
                              durations, status_codes, result>>
          ELSE IF ~route.has_url
          THEN /\ pc' = "raised"
               /\ exc' = "KeyError"
               /\ UNCHANGED <<heap, heap0, iter, tester, future, response,
                              durations, status_codes, result>>
          ELSE /\ pc' = "start"
               /\ heap' = TemplateHeap(route.tpl)
               /\ heap0' = heap'
               /\ iter' = 0
               /\ tester' = NoTester
               /\ future' = "none"
               /\ response' = NoResponse
               /\ durations' = <<>>
               /\ status_codes' = <<>>
               /\ result' = NoResult
               /\ exc' = exc
    /\ UNCHANGED <<calls, data, ret, method, num_requests, concurrent, detail,
                   outcomes, config, routes, route_filter, results>>

\* result["name"] = route.get("name", ...); results.append(result)
RouteDone ==
    /\ pc = "done"
    /\ results' = IF detail THEN results
                  ELSE Append(results,
                              [result EXCEPT !.name = routes[route_idx].name,
                                             !.keys = @ \cup {"name"}])
    /\ pc' = "routes"
    /\ UNCHANGED <<heap, calls, heap0, exc, data, ret, runVars, config, routes,
                   route_filter, route_idx>>

\* the end of the loop, or "No routes defined in configuration file"
RoutesEnd ==
    /\ pc = "routes"
    /\ route_idx = Len(routes)
    /\ pc' = "exit"
    /\ UNCHANGED <<heap, calls, heap0, exc, data, ret, runVars, configVars>>

\* main's "except ValueError as e: print(...)"
MainExcept ==
    /\ pc = "raised"
    /\ exc = "ValueError"
    /\ pc' = "reported"
    /\ UNCHANGED <<heap, calls, heap0, exc, data, ret, runVars, configVars>>

NextConfig ==
    \/ LoadConfigFile
    \/ NextRoute
    \/ RunStep
    \/ RouteDone
    \/ RoutesEnd
    \/ MainExcept

SpecConfig == InitConfig /\ [][NextConfig]_vars

(***************************************************************************)
(* Vocabulary of the claims                                                *)
(***************************************************************************)
IsLetter(c) ==
    \/ \E j \in 1..Len(UpperAlpha) : UpperAlpha[j] = c
    \/ \E j \in 1..Len(LowerAlpha) : LowerAlpha[j] = c

IsIdentChar(c) == IsLetter(c) \/ c = "_" \/ \E j \in 1..Len(Digits) : Digits[j] = c

\* s has the marker shape: "$", an identifier, and a parenthesized argument
\* list that ends the string
MarkerShaped(s) ==
    /\ Len(s) >= 4
    /\ s[1] = "$"
    /\ s[Len(s)] = ")"
    /\ Contains(s, "(")
    /\ LET name == SubSeq(s, 2, FirstIndex(s, "(") - 1)
       IN /\ name # <<>>
          /\ IsLetter(name[1]) \/ name[1] = "_"
          /\ \A j \in 1..Len(name) : IsIdentChar(name[j])

\* s begins with the ten characters "$generate_"
HasGeneratePrefix(s) ==
    /\ Len(s) >= 10
    /\ <<s[1], s[2], s[3], s[4], s[5], s[6], s[7], s[8], s[9], s[10]>>
         = <<"$", "g", "e", "n", "e", "r", "a", "t", "e", "_">>

\* the strings that occur as values in a resolved JSON value
RECURSIVE StringsOf(_)
StringsOf(d) ==
    IF d.k = "str" THEN {d.s}
    ELSE UNION {StringsOf(d.items[j]) : j \in 1..Len(d.items)}

\* the number of marker-shaped strings in a resolved JSON value
RECURSIVE MarkerCount(_)
MarkerCount(d) ==
    IF d.k = "str" THEN (IF MarkerShaped(d.s) THEN 1 ELSE 0)
    ELSE SumSeq([j \in 1..Len(d.items) |-> MarkerCount(d.items[j])])

\* the argument of the direct call as it was, and its result as it is
ExpandInput == Deep(data, heap0)
ExpandOutput == Deep(ret, heap)

\* headers, body and params of the tester under test, then and now
TemplateThen == TesterData(SelfAddr, heap0)
TemplateNow == TesterData(SelfAddr, heap)

\* a performance test has returned
PerfDone == pc = "done" /\ ~detail
\* a performance test has returned or raised
PerfEnded == pc \in {"done", "raised"} /\ ~detail

RECURSIVE SumCounts(_, _)
SumCounts(f, S) ==
    IF S = {} THEN 0
    ELSE LET c == CHOOSE c \in S : TRUE
         IN f[c] + SumCounts(f, S \ {c})

(***************************************************************************)
(* C1 (refuted by the code): run_performance_test never mutates the route  *)
(* template it is called on: headers, body and params of the calling       *)
(* tester stay equal to their values before the call at every depth.       *)
(***************************************************************************)
C1_TemplateNeverMutated == ~detail => TemplateNow = TemplateThen

(***************************************************************************)
(* C2 (refuted by the code): with count = n every marker of the template,  *)
(* at any depth, is expanded by a fresh generator invocation in each of    *)
(* the n iterations (n invocations per marker occurrence), and no          *)
(* iteration sends a value generated during an earlier iteration.          *)
(***************************************************************************)
C2_FreshExpansionPerIteration ==
    PerfDone =>
      /\ Len(calls) = num_requests *
            (MarkerCount(TemplateThen.headers) + MarkerCount(TemplateThen.body)
               + MarkerCount(TemplateThen.params))
      /\ \A j \in 1..Len(outcomes) : \A t \in outcomes[j].sent : t > outcomes[j].start

(***************************************************************************)
(* C3 (refuted by the code): for every count >= 0 and both modes, when no  *)
(* iteration succeeded run_performance_test returns                        *)
(* {"error": "All requests failed"} with no timing fields, and does not    *)
(* raise.                                                                  *)
(***************************************************************************)
C3_AllFailedReturnsError ==
    (PerfEnded /\ \A j \in 1..Len(outcomes) : outcomes[j].raised) =>
      /\ pc = "done"
      /\ result = ErrorResult
      /\ result.keys = {"error"}

(***************************************************************************)
(* C4 (refuted by the code): an iteration is successful exactly when the   *)
(* transport returned a response: when every transport call returns status *)
(* s (any s), a run with count = n >= 1 returns requests_sent = n,         *)
(* successful_requests = n and status_codes = {s: n}.                      *)
(***************************************************************************)
C4_EveryResponseCounts ==
    \A s \in StatusCodes :
      (/\ PerfDone
       /\ num_requests >= 1
       /\ \A j \in 1..Len(outcomes) : ~outcomes[j].raised /\ outcomes[j].status_code = s)
      => /\ result.kind = "stats"
         /\ result.requests_sent = num_requests
         /\ result.successful_requests = num_requests
         /\ result.status_codes = [c \in {s} |-> num_requests]

(***************************************************************************)
(* C5: every statistics record returned by run_performance_test has        *)
(* successful_requests <= requests_sent, requests_sent = count, and        *)
(* histogram counts that sum to successful_requests.                       *)
(***************************************************************************)
C5_StatsCountsConsistent ==
    result.kind = "stats" =>
      /\ result.successful_requests <= result.requests_sent
      /\ result.requests_sent = num_requests
      /\ SumCounts(result.status_codes, DOMAIN result.status_codes)
           = result.successful_requests

\* a returned record over a mix of succeeding and failing iterations
C5_Witness ==
    /\ PerfDone
    /\ result.kind = "stats"
    /\ result.successful_requests >= 2
    /\ result.successful_requests < result.requests_sent

C7_FromOptionsExpands ==
    (pc = "expanded" /\ data = MkStr(S_from_options))
      => ret \in {MkStr(<<"a">>), MkStr(<<"b">>)}

(***************************************************************************)
(* C8: what a bad marker leaves behind.  FailingCalls are calls of         *)
(* registered generators whose invocation fails, UnregisteredCalls are     *)
(* well-formed calls of generators that are not registered.                *)
(***************************************************************************)
FailingCalls ==
    {S_text_bad, S_uuid_arg, S_text_quoted, S_number_rev, S_number_list,
     S_number_brackets}
UnregisteredCalls == {S_foo}

\* the name written in a well-formed call
CalledName(s) == SubSeq(s, 2, FirstIndex(s, "(") - 1)

\* out is in with every bad marker replaced in place and everything that is
\* no "$generate_" string kept; unknownAsError: an unregistered generator
\* leaves "Error generating content: ..." rather than "Unknown generator: ..."
RECURSIVE Intact(_, _, _)
Intact(in, out, unknownAsError) ==
    IF in.k = "str"
    THEN IF in.s \in FailingCalls \/ (unknownAsError /\ in.s \in UnregisteredCalls)
         THEN out.k = "str" /\ StartsWith(out.s, ErrPrefix)
         ELSE IF in.s \in UnregisteredCalls
         THEN out = MkStr(UnknownPrefix \o CalledName(in.s))
         ELSE IF HasGeneratePrefix(in.s) THEN TRUE
         ELSE out = in
    ELSE IF in.k \in {"dict", "list", "entry"}
    THEN /\ out.k = in.k
         /\ out.s = in.s
         /\ Len(out.items) = Len(in.items)
         /\ \A j \in 1..Len(in.items) : Intact(in.items[j], out.items[j], unknownAsError)
    ELSE out = in

C9_AllIterationsRun ==
    ~detail =>
      /\ Len(outcomes) <= num_requests
      /\ result.kind # "none" => (Len(outcomes) = num_requests /\ future = "none"
                                    /\ iter = num_requests)
      /\ pc = "done" => result.kind # "none"
      /\ pc = "raised" => outcomes = <<>>
      /\ pc = "loop" => iter <= num_requests
      /\ pc = "waiting" => future \in {"pending", "done"}
      /\ \A j \in 1..Len(outcomes) :
            (outcomes[j].raised /\ j < num_requests)
              => pc \in {"created", "waiting", "returned", "loop", "done"}

\* a concurrent run whose first transport call raised has made all its calls
C9_Witness ==
    /\ PerfDone
    /\ concurrent
    /\ num_requests >= 2
    /\ outcomes[1].raised
    /\ ~outcomes[2].raised
    /\ Len(outcomes) = num_requests
    /\ result.kind = "stats"

RECURSIVE C11_Pieces(_, _, _, _)
C11_Pieces(s, depth, cur, acc) ==
    IF s = <<>> THEN Append(acc, cur)
    ELSE LET c == Head(s)
         IN IF c = "," /\ depth = 0
            THEN C11_Pieces(Tail(s), 0, <<>>, Append(acc, cur))
            ELSE C11_Pieces(Tail(s),
                            IF c = "[" THEN depth + 1
                            ELSE IF c = "]" /\ depth > 0 THEN depth - 1
                            ELSE depth,
                            Append(cur, c), acc)

\* the value the claim has passed for the trimmed text of an argument
RECURSIVE C11_Coerced(_)
C11_Coerced(text) ==
    IF Lower(text) = L_true THEN MkBool(TRUE)
    ELSE IF Lower(text) = L_false THEN MkBool(FALSE)
    ELSE IF IsDigit(text) THEN MkInt(ToInt(text))
    ELSE IF Len(text) >= 2 /\ text[1] = DQ /\ text[Len(text)] = DQ
    THEN MkStr(SubSeq(text, 2, Len(text) - 1))
    ELSE IF Len(text) >= 2 /\ text[1] = "[" /\ text[Len(text)] = "]"
    THEN LET inner == SubSeq(text, 2, Len(text) - 1)
             elems == IF Strip(inner) = <<>> THEN <<>> ELSE C11_Pieces(inner, 0, <<>>, <<>>)
         IN MkList([j \in 1..Len(elems) |-> C11_Coerced(Strip(elems[j]))])
    ELSE MkStr(text)

\* the keyword arguments of the pieces, a later pair replacing an earlier
\* one of the same key
RECURSIVE C11_Keywords(_, _)
C11_Keywords(pieces, args) ==
    IF pieces = <<>> THEN args
    ELSE LET piece == Head(pieces)
         IN IF Contains(piece, "=")
            THEN C11_Keywords(Tail(pieces),
                              DictSet(args, Strip(SplitHead(piece, "=")),
                                      C11_Coerced(Strip(SplitRest(piece, "=")))))
            ELSE C11_Keywords(Tail(pieces), args)

\* the keyword arguments of the call written in the marker s
C11_Passed(s) ==
    LET written == SubSeq(s, FirstIndex(s, "(") + 1, Len(s) - 1)
    IN IF written = <<>> THEN <<>>
       ELSE C11_Keywords(C11_Pieces(written, 0, <<>>, <<>>), <<>>)

\* the markers of the argument of the direct call that call a generator
C11_Calls ==
    {s \in StringsOf(ExpandInput) :
        HasGeneratePrefix(s) /\ Contains(s, "(") /\ s[Len(s)] = ")"}

(***************************************************************************)
(* C11 (refuted by the code): for each key=value pair of a marker's        *)
(* argument list the value passed to the generator is, after trimming, a   *)
(* boolean if the text is "true"/"false" in any letter case, an integer    *)
(* if it is all digits, the dequoted string if it is wrapped in double     *)
(* quotes, a list of values coerced by the same rules if it is wrapped in  *)
(* [...], and the raw text otherwise: the generator invocation that       *)
(* process_dynamic_content makes for a marker with an argument list has    *)
(* the keyword arguments C11_Passed gives for that marker.                 *)
(***************************************************************************)
C11_ArgumentsCoerced ==
    pc = "expanded" =>
      \A s \in C11_Calls :
         \A j \in 1..Len(calls) :
            calls[j].name = CalledName(s) => calls[j].params = C11_Passed(s)

(***************************************************************************)
(* C12: the order of a run.  An outcome is kept when its response is       *)
(* truthy; the outcomes the loop has been through are all but the one      *)
(* whose response has not yet passed the `if response:` test.              *)
(***************************************************************************)
C12_Kept(o) == ~o.raised /\ ResponseTruthy(Response(o.status_code))

C12_Collected ==
    IF pc = "returned" \/ (pc = "waiting" /\ future = "done")
    THEN Len(outcomes) - 1
    ELSE Len(outcomes)

C12_KeptCodes ==
    LET kept == SelectSeq(SubSeq(outcomes, 1, C12_Collected), C12_Kept)
    IN [j \in 1..Len(kept) |-> kept[j].status_code]

\* requests handed to the pool whose send_request has not returned
C12_InFlight == IF future = "pending" THEN iter - Len(outcomes) ELSE 0

====
